---- MODULE Spec2Model ----
(***************************************************************************)
(* Hall booking: the create / delete handlers of the two application       *)
(* variants (Flask + SQLite in hall_booking.py, Flask + Firestore in       *)
(* functions/main.py) as a state machine over the set of stored bookings.  *)
(*                                                                         *)
(* Instants of bookings are whole minutes since 00:00 of day 0 (both       *)
(* parsers drop the seconds); the wall clock is in seconds since the same  *)
(* origin.  Text inputs are sequences of characters (title, name, email)   *)
(* or of lexer tokens (the two time texts).                                *)
(***************************************************************************)
EXTENDS Integers, Sequences, FiniteSets, TLC

VARIABLES
    backend,   \* "sqlite" (hall_booking.py) or "firestore" (functions/main.py)
    bookings,  \* the rows of the Booking table / the documents of 'bookings'
    created,   \* how many bookings have been inserted so far
    issued,    \* the ids given to bookings so far (history; no handler reads it)
    clock,     \* datetime.now(APP_TZ), in seconds
    req        \* per client: the request in progress or the last answer

vars == <<backend, bookings, created, issued, clock, req>>

-----------------------------------------------------------------------------
(* Program constants *)

\* timedelta(days=1), in minutes
MinutesPerDay == 1440

\* total_seconds() // 60
SecondsPerMinute == 60

\* timedelta(hours=6)
MaxHours == 6

MaxDuration == MaxHours * 60

-----------------------------------------------------------------------------
(* Bounds of the model *)

\* the clock advances at most this many half minutes
MaxTicks == 3

\* at most this many bookings are ever inserted
MaxCreates == 2

\* at most this many bookings are ever inserted on the busy day
MaxBusy == 5

Procs == {"r1", "r2"}

SeqProcs == {"r1"}

Backends == {"sqlite", "firestore"}

\* 09:59:30 of day 0
ClockStart == (599 * SecondsPerMinute) + (SecondsPerMinute \div 2)

-----------------------------------------------------------------------------
(* Text *)

IsSpace(c) == c = " "

RECURSIVE LStrip(_)
LStrip(s) == IF s # <<>> /\ IsSpace(Head(s)) THEN LStrip(Tail(s)) ELSE s

RECURSIVE RStrip(_)
RStrip(s) ==
    IF s # <<>> /\ IsSpace(s[Len(s)]) THEN RStrip(SubSeq(s, 1, Len(s) - 1)) ELSE s

\* str.strip()
Strip(s) == RStrip(LStrip(s))

\* [^@\s]+ matches the whole of s
PlainRun(s) == /\ Len(s) > 0
               /\ \A i \in 1..Len(s) : s[i] # "@" /\ ~IsSpace(s[i])

\* re.match(r"^[^@\s]+@[^@\s]+\.[^@\s]+$", email)
EmailPattern(s) ==
    \E i \in 1..Len(s) : \E j \in 1..Len(s) :
        /\ i < j
        /\ s[i] = "@"
        /\ s[j] = "."
        /\ PlainRun(SubSeq(s, 1, i - 1))
        /\ PlainRun(SubSeq(s, i + 1, j - 1))
        /\ PlainRun(SubSeq(s, j + 1, Len(s)))

valid_email(email) == IF email = <<>> THEN TRUE ELSE EmailPattern(email)

\* Tokens of a time text: white space, a word that is no date, or a date
\* with a time of day (day number, minute of the day, seconds).
WS == [k |-> "ws", d |-> 0, m |-> 0, s |-> 0]

Junk == [k |-> "junk", d |-> 0, m |-> 0, s |-> 0]

DT(day, minute, sec) == [k |-> "dt", d |-> day, m |-> minute, s |-> sec]

Words(text) == SelectSeq(text, LAMBDA t : t.k # "ws")

\* dtparse(dt_str) does not raise
Parses(text) == Len(Words(text)) = 1 /\ Words(text)[1].k = "dt"

\* datetime(dt.year, dt.month, dt.day, dt.hour, dt.minute, 0)
parse_local(text) == (Words(text)[1].d * MinutesPerDay) + Words(text)[1].m

DateOf(t) == t \div MinutesPerDay

TimeOf(t) == t % MinutesPerDay

-----------------------------------------------------------------------------
(* Validation, in the order of the handlers *)

\* all([title, name, start_raw, end_raw]): every value is a non-empty string
AllPresent(title, name, start_raw, end_raw) ==
    /\ title # <<>>
    /\ name # <<>>
    /\ start_raw # <<>>
    /\ end_raw # <<>>

\* Mutant of Rollover: the end is never moved.
RolloverNever(start_at, end_at) == end_at

\* Mutant of Rollover: the end is also moved when the times of day are equal.
RolloverOrEqual(start_at, end_at) ==
    IF DateOf(end_at) = DateOf(start_at) /\ TimeOf(end_at) <= TimeOf(start_at)
    THEN end_at + MinutesPerDay
    ELSE end_at

\* if end_at.date() == start_at.date() and end_at.time() < start_at.time():
\*     end_at += timedelta(days=1)
Rollover(start_at, end_at) ==
    IF DateOf(end_at) = DateOf(start_at) /\ TimeOf(end_at) < TimeOf(start_at)
    THEN end_at + MinutesPerDay
    ELSE end_at

\* now_in_qatar, in seconds, from the clock reading: the SQLite variant
\* replaces second and microsecond by 0, the Firestore variant does not
Now(be, reading) ==
    IF be = "sqlite"
    THEN (reading \div SecondsPerMinute) * SecondsPerMinute
    ELSE reading

\* Mutant of IsPast: only the calendar dates are compared.
IsPastDay(start_at, now) == DateOf(start_at) < DateOf(now \div SecondsPerMinute)

\* Mutant of IsPast: a start equal to now counts as past.
IsPastOrNow(start_at, now) == start_at * SecondsPerMinute <= now

\* start_at < now_in_qatar
IsPast(start_at, now) == start_at * SecondsPerMinute < now

\* Mutant of NonPositive: an empty interval passes.
NonPositiveStrict(start_at, end_at) == end_at < start_at

\* end_at <= start_at
NonPositive(start_at, end_at) == end_at <= start_at

\* Mutant of TooLong: the duration is compared in whole hours.
TooLongWholeHours(start_at, end_at) == (end_at - start_at) \div 60 > MaxHours

\* (end_at - start_at) > timedelta(hours=6)
TooLong(start_at, end_at) == end_at - start_at > MaxDuration

\* The checks of create_booking up to the conflict query: the reason of the
\* first failing check ("Valid" when none fails) and the parsed interval.
Validate(form, be, reading) ==
    LET title == Strip(form.title)
        name == Strip(form.name)
        email == Strip(form.email)
        start_raw == form.start_at
        end_raw == form.end_at
        Rejected(why) == [reason |-> why, start_at |-> 0, end_at |-> 0]
    IN  IF ~AllPresent(title, name, start_raw, end_raw) THEN Rejected("MissingField")
        ELSE IF ~valid_email(email) THEN Rejected("InvalidEmail")
        ELSE IF ~(Parses(start_raw) /\ Parses(end_raw)) THEN Rejected("MalformedTime")
        ELSE LET start_at == parse_local(start_raw)
                 end_at == Rollover(start_at, parse_local(end_raw))
                 At(why) == [reason |-> why, start_at |-> start_at, end_at |-> end_at]
             IN  IF IsPast(start_at, Now(be, reading)) THEN At("PastBooking")
                 ELSE IF NonPositive(start_at, end_at) THEN At("NonPositiveDuration")
                 ELSE IF TooLong(start_at, end_at) THEN At("DurationExceeded")
                 ELSE At("Valid")

-----------------------------------------------------------------------------
(* The store *)

NoBooking ==
    [id |-> 0, title |-> <<>>, name |-> <<>>, email |-> <<>>, start_at |-> 0, end_at |-> 0]

\* Mutant of Overlaps: a conflict only when the candidate starts inside the
\* booking.
OverlapsStartInside(b, start_at, end_at) ==
    b.start_at <= start_at /\ start_at < b.end_at

\* Mutant of Overlaps: a conflict only when an end point of the candidate
\* lies strictly inside the booking.
OverlapsEndpointInside(b, start_at, end_at) ==
    \/ b.start_at < start_at /\ start_at < b.end_at
    \/ b.start_at < end_at /\ end_at < b.end_at

\* Booking.start_at < end_at, Booking.end_at > start_at
Overlaps(b, start_at, end_at) == b.start_at < end_at /\ b.end_at > start_at

\* exclude_id=None
NoId == 0

\* Mutant of get_conflict: exclude_id is ignored.
get_conflict_any(store, start_at, end_at, exclude_id) ==
    {b \in store : Overlaps(b, start_at, end_at)}

\* The rows of the query of get_conflict, of which q.first() returns one
\* (None when there is none).  `if exclude_id:` adds the filter
\* Booking.id != exclude_id for every value but None and 0.
get_conflict(store, start_at, end_at, exclude_id) ==
    {b \in store : /\ Overlaps(b, start_at, end_at)
                   /\ (exclude_id # NoId => b.id # exclude_id)}

\* the rows the conflict check of create_booking hits (get_conflict with no
\* exclude_id; the loop over the streamed documents in the Firestore variant)
Conflicting(store, start_at, end_at) == get_conflict(store, start_at, end_at, NoId)

Max(S) == CHOOSE x \in S : \A y \in S : y <= x

Ids(store) == {b.id : b \in store}

\* The key of a new row.  SQLite: an INTEGER PRIMARY KEY column without
\* AUTOINCREMENT takes the largest key in the table plus one.  Firestore:
\* add() draws a fresh document id.
NewId(be, store, count) ==
    IF be = "sqlite"
    THEN (IF store = {} THEN 1 ELSE Max(Ids(store)) + 1)
    ELSE count + 1

\* Booking(title=title, name=name, email=email or None, start_at=..., end_at=...)
NewBooking(id, form, start_at, end_at) ==
    [id |-> id,
     title |-> Strip(form.title),
     name |-> Strip(form.name),
     email |-> Strip(form.email),
     start_at |-> start_at,
     end_at |-> end_at]

-----------------------------------------------------------------------------
(* Requests *)

Form(title, name, email, start_raw, end_raw) ==
    [title |-> title, name |-> name, email |-> email,
     start_at |-> start_raw, end_at |-> end_raw]

NoForm == Form(<<>>, <<>>, <<>>, <<>>, <<>>)

At(day, hour, minute) == <<DT(day, (hour * 60) + minute, 0)>>

Plain(start_raw, end_raw) == Form(<<"a">>, <<"a">>, <<>>, start_raw, end_raw)

\* Forms of the concurrent specification: complete fields; an interval
\* that starts at 10:00, intervals that cross midnight and last exactly 6
\* hours or a minute more, an empty interval, an end before the start.
RaceForms ==
    {Plain(At(0, 10, 0), At(0, 13, 0)),
     Plain(At(0, 22, 0), At(0, 4, 0)),
     Plain(At(0, 22, 0), At(0, 4, 1)),
     Plain(At(0, 13, 0), At(0, 13, 0)),
     Plain(At(1, 0, 0), At(0, 22, 0))}

\* Forms of the sequential specification: also intervals that overlap and
\* that touch.
SeqForms ==
    RaceForms \cup
    {Plain(At(0, 13, 0), At(0, 16, 0)),
     Plain(At(0, 10, 0), At(0, 16, 0)),
     Plain(At(0, 10, 0), At(0, 16, 1))}

\* Forms of the validation specification: every field also empty, blank or
\* malformed; starts around the clock; ends at the 6 hour boundary.
Titles == {<<"a">>, <<" ">>}

Names == {<<" ", "a">>, <<>>}

Emails == {<<>>, <<" ">>, <<"a", "@", "a", ".", "a">>, <<"a", "@", "a">>}

StartTexts ==
    {<<>>, <<WS>>, <<Junk>>, <<DT(0, 600, 30)>>, <<WS, DT(0, 599, 0)>>,
     At(0, 10, 1), At(0, 22, 0), At(1, 0, 0)}

EndTexts ==
    {<<>>, <<WS, WS>>, <<Junk, DT(0, 960, 0)>>, At(0, 10, 0), At(0, 16, 0), At(0, 16, 1),
     At(0, 1, 0), At(0, 4, 0), At(0, 4, 1), At(0, 22, 0), At(1, 2, 0), At(1, 10, 2)}

ValForms == {Form(t, n, m, s, e) : t \in Titles, n \in Names, m \in Emails,
                                   s \in StartTexts, e \in EndTexts}

Idle ==
    [pc |-> "idle", op |-> "none", id |-> 0, form |-> NoForm, reading |-> 0,
     start_at |-> 0, end_at |-> 0, result |-> "None", conflict |-> NoBooking,
     times |-> 0, day |-> 0, shown |-> <<>>, todays_count |-> 0,
     total_minutes |-> 0, hours_booked |-> 0]

Received(form) == [Idle EXCEPT !.pc = "received", !.op = "create", !.form = form]

HalfMinute == SecondsPerMinute \div 2

ClockEnd == ClockStart + (MaxTicks * HalfMinute)

Init ==
    /\ backend \in Backends
    /\ bookings = {}
    /\ created = 0
    /\ issued = {}
    /\ clock = ClockStart
    /\ req = [p \in Procs |-> Idle]

\* The request after the checks of create_booking that precede the conflict
\* query: the handler has read the form and the clock.  A rejected request
\* is answered at once.
Validated(form, be, reading) ==
    LET v == Validate(form, be, reading)
    IN  [pc |-> IF v.reason = "Valid" THEN "validated" ELSE "done",
         op |-> "create",
         id |-> 0,
         form |-> form,
         reading |-> reading,
         start_at |-> v.start_at,
         end_at |-> v.end_at,
         result |-> IF v.reason = "Valid" THEN "None" ELSE v.reason,
         conflict |-> NoBooking,
         times |-> 0,
         day |-> 0,
         shown |-> <<>>,
         todays_count |-> 0,
         total_minutes |-> 0,
         hours_booked |-> 0]

\* The request after conflicting_booking = get_conflict(start_at, end_at)
\* found row b.
Refused(r, b) == [r EXCEPT !.pc = "done", !.result = "Conflict", !.conflict = b]

Accepted(r) == [r EXCEPT !.pc = "done", !.result = "Ok"]

\* db.session.add(b); db.session.commit()  /  bookings_collection.add(new_booking)
Inserted(store, be, count, r) ==
    store \cup {NewBooking(NewId(be, store, count), r.form, r.start_at, r.end_at)}

\* a create request arrives and is validated
Receive(p, forms) ==
    /\ req[p].pc \in {"idle", "done"}
    /\ \E form \in forms : req' = [req EXCEPT ![p] = Validated(form, backend, clock)]
    /\ UNCHANGED <<backend, bookings, created, issued, clock>>

\* the conflict query; which overlapping row comes first is up to the store
CheckConflict(p) ==
    /\ req[p].pc = "validated"
    /\ LET found == Conflicting(bookings, req[p].start_at, req[p].end_at)
       IN  IF found = {}
           THEN req' = [req EXCEPT ![p].pc = "checked"]
           ELSE \E b \in found : req' = [req EXCEPT ![p] = Refused(req[p], b)]
    /\ UNCHANGED <<backend, bookings, created, issued, clock>>

\* the insert, while fewer than cap bookings have been inserted
InsertBelow(p, cap) ==
    /\ req[p].pc = "checked"
    /\ created < cap
    /\ bookings' = Inserted(bookings, backend, created, req[p])
    /\ created' = created + 1
    /\ issued' = issued \cup {NewId(backend, bookings, created)}
    /\ req' = [req EXCEPT ![p] = Accepted(req[p])]
    /\ UNCHANGED <<backend, clock>>

Insert(p) == InsertBelow(p, MaxCreates)

\* Mutant of HandleCreate: the row is committed before the conflict query
\* and stays when the request is refused.
HandleCreateCommitFirst(p, form) ==
    LET r == Validated(form, backend, clock)
        found == Conflicting(bookings, r.start_at, r.end_at)
    IN  IF r.pc = "done"
        THEN /\ req' = [req EXCEPT ![p] = r]
             /\ UNCHANGED <<backend, bookings, created, issued, clock>>
        ELSE /\ created < MaxCreates
             /\ bookings' = Inserted(bookings, backend, created, r)
             /\ created' = created + 1
             /\ issued' = issued \cup {NewId(backend, bookings, created)}
             /\ IF found # {}
                THEN \E b \in found : req' = [req EXCEPT ![p] = Refused(r, b)]
                ELSE req' = [req EXCEPT ![p] = Accepted(r)]
             /\ UNCHANGED <<backend, clock>>

\* The whole of create_booking with no other request in between.
HandleCreate(p, form) ==
    LET r == Validated(form, backend, clock)
        found == Conflicting(bookings, r.start_at, r.end_at)
    IN  IF r.pc = "done"
        THEN /\ req' = [req EXCEPT ![p] = r]
             /\ UNCHANGED <<backend, bookings, created, issued, clock>>
        ELSE IF found # {}
        THEN /\ \E b \in found : req' = [req EXCEPT ![p] = Refused(r, b)]
             /\ UNCHANGED <<backend, bookings, created, issued, clock>>
        ELSE /\ created < MaxCreates
             /\ bookings' = Inserted(bookings, backend, created, r)
             /\ created' = created + 1
             /\ issued' = issued \cup {NewId(backend, bookings, created)}
             /\ req' = [req EXCEPT ![p] = Accepted(r)]
             /\ UNCHANGED <<backend, clock>>

Create(p, forms) ==
    /\ req[p].pc \in {"idle", "done"}
    /\ \E form \in forms : HandleCreate(p, form)

Process(p) ==
    /\ req[p].pc = "received"
    /\ HandleCreate(p, req[p].form)

\* The answer of delete_booking.  SQLite: get_or_404 answers 404 when there
\* is no such row.  Firestore: document(booking_id).delete() succeeds whether
\* or not the document exists.
DeleteResult(be, store, id) ==
    IF be = "sqlite" /\ id \notin Ids(store) THEN "NotFound" ELSE "Ok"

\* How often in a row the client has asked to delete this id, counting from
\* the request that removed a booking: 1 for that request, 2 for a repeat
\* of it, 0 otherwise.
Times(r, store, id) ==
    IF id \in Ids(store) THEN 1
    ELSE IF r.op = "delete" /\ r.id = id /\ r.times > 0 THEN 2
    ELSE 0

\* Mutant of Delete: the request is answered but the row stays.
DeleteKeepsRow(p, id) ==
    /\ req[p].pc \in {"idle", "done"}
    /\ bookings' = bookings
    /\ req' = [req EXCEPT ![p] =
                 [Idle EXCEPT !.pc = "done", !.op = "delete", !.id = id,
                              !.times = Times(req[p], bookings, id),
                              !.result = DeleteResult(backend, bookings, id)]]
    /\ UNCHANGED <<backend, created, issued, clock>>

\* delete_booking: db.session.delete(b); db.session.commit()  /
\* bookings_collection.document(booking_id).delete()
Delete(p, id) ==
    LET hit == {b \in bookings : b.id = id}
    IN  /\ req[p].pc \in {"idle", "done"}
        /\ bookings' = bookings \ hit
        /\ req' = [req EXCEPT ![p] =
                     [Idle EXCEPT !.pc = "done", !.op = "delete", !.id = id,
                                  !.times = Times(req[p], bookings, id),
                                  !.result = DeleteResult(backend, bookings, id)]]
        /\ UNCHANGED <<backend, created, issued, clock>>

\* time passes
Tick ==
    /\ clock < ClockEnd
    /\ clock' = clock + HalfMinute
    /\ UNCHANGED <<backend, bookings, created, issued, req>>

DeleteIds == 1..MaxCreates

\* concurrent requests
Next ==
    \/ \E p \in Procs : Receive(p, RaceForms)
    \/ \E p \in Procs : CheckConflict(p)
    \/ \E p \in Procs : Insert(p)
    \/ \E p \in Procs : \E id \in DeleteIds : Delete(p, id)
    \/ Tick

Spec == Init /\ [][Next]_vars

\* one request at a time
NextSeq ==
    \/ \E p \in SeqProcs : Create(p, SeqForms)
    \/ \E p \in SeqProcs : \E id \in DeleteIds : Delete(p, id)
    \/ Tick

SpecSeq == Init /\ [][NextSeq]_vars

\* one create request, of any form, at any reading of the clock, on an
\* empty store or beside a booking made earlier
Earlier == NewBooking(1, Plain(At(0, 22, 0), At(0, 23, 0)), 1320, 1380)

InitVal ==
    /\ backend \in Backends
    /\ \/ bookings = {} /\ created = 0 /\ issued = {}
       \/ bookings = {Earlier} /\ created = 1 /\ issued = {Earlier.id}
    /\ clock \in {ClockStart + (k * HalfMinute) : k \in 0..MaxTicks}
    /\ \E form \in ValForms :
           req = [p \in Procs |-> IF p \in SeqProcs THEN Received(form) ELSE Idle]

NextVal == \E p \in SeqProcs : Process(p)

SpecVal == InitVal /\ [][NextVal]_vars

\* A conflict query on its own: get_conflict(start_at, end_at, exclude_id)
\* is asked for an interval and, in the SQLite variant, with or without
\* the id of a row to leave out.
Held(id, start_at, end_at) == NewBooking(id, Plain(<<>>, <<>>), start_at, end_at)

\* stores of the query specification: the bookings 10:00-13:00 and
\* 13:00-16:00, both, one or none
ConfStores == SUBSET {Held(1, 600, 780), Held(2, 780, 960)}

\* end points of the intervals asked for: around and inside the two bookings
ConfTimes == {540, 600, 720, 780, 840, 960, 1020}

Asked(start_at, end_at, exclude_id) ==
    [Idle EXCEPT !.pc = "received", !.op = "conflict", !.id = exclude_id,
                 !.start_at = start_at, !.end_at = end_at]

ExcludeIds(be) == IF be = "sqlite" THEN NoId..MaxCreates ELSE {NoId}

InitConf ==
    /\ backend \in Backends
    /\ bookings \in ConfStores
    /\ created = (IF bookings = {} THEN 0 ELSE Max(Ids(bookings)))
    /\ issued = 1..created
    /\ clock = ClockStart
    /\ \E s \in ConfTimes : \E e \in ConfTimes : \E x \in ExcludeIds(backend) :
           /\ s < e
           /\ req = [p \in Procs |-> IF p \in SeqProcs THEN Asked(s, e, x) ELSE Idle]

\* return q.first()
QueryConflict(p) ==
    /\ req[p].pc = "received"
    /\ req[p].op = "conflict"
    /\ LET found == get_conflict(bookings, req[p].start_at, req[p].end_at, req[p].id)
       IN  IF found = {}
           THEN req' = [req EXCEPT ![p].pc = "done", ![p].result = "Free"]
           ELSE \E b \in found : req' = [req EXCEPT ![p] = Refused(req[p], b)]
    /\ UNCHANGED <<backend, bookings, created, issued, clock>>

NextConf == \E p \in SeqProcs : QueryConflict(p)

SpecConf == InitConf /\ [][NextConf]_vars

\* two clients, one request at a time, creates only
NextPair == \E p \in Procs : Create(p, SeqForms)

SpecPair == Init /\ [][NextPair]_vars

-----------------------------------------------------------------------------
(* The bookings of a day: index() / get_bookings() *)

\* day_start = datetime(selected_date.year, selected_date.month, selected_date.day)
DayStart(day) == day * MinutesPerDay

\* day_end = day_start + timedelta(days=1)
DayEnd(day) == DayStart(day) + MinutesPerDay

\* Mutant of InDay: only bookings that lie within the day.
InDayWhole(b, day_start, day_end) == b.start_at >= day_start /\ b.end_at <= day_end

\* Mutant of InDay: a booking that touches the day from outside is included.
InDayClosed(b, day_start, day_end) == b.start_at <= day_end /\ b.end_at >= day_start

\* Booking.start_at < day_end, Booking.end_at > day_start
InDay(b, day_start, day_end) == b.start_at < day_end /\ b.end_at > day_start

\* strftime("%Y-%m-%d %H:%M"): date, hour and minute, each zero padded
Format(t) == <<DateOf(t), TimeOf(t) \div 60, TimeOf(t) % 60>>

\* x <= y for two formatted texts, as strings
TextLeq(x, y) ==
    \/ x[1] < y[1]
    \/ x[1] = y[1] /\ x[2] < y[2]
    \/ x[1] = y[1] /\ x[2] = y[2] /\ x[3] <= y[3]

\* The order of the answer.  SQLite: order_by(Booking.start_at.asc()).
\* Firestore: bookings.sort(key=lambda x: x['start_at']) on the formatted
\* texts.
Before(be, a, b) ==
    IF be = "sqlite"
    THEN a.start_at <= b.start_at
    ELSE TextLeq(Format(a.start_at), Format(b.start_at))

\* The sequences that hold every row of rows once, in ascending order of
\* the key; rows with equal keys come in the order the store gives them.
RECURSIVE Sorted(_, _)
Sorted(be, rows) ==
    IF rows = {}
    THEN {<<>>}
    ELSE LET first == {b \in rows : \A c \in rows : Before(be, b, c)}
         IN  UNION {{<<b>> \o rest : rest \in Sorted(be, rows \ {b})} : b \in first}

\* the bookings of the day in the order of the answer
DayRows(be, store, day) ==
    Sorted(be, {b \in store : InDay(b, DayStart(day), DayEnd(day))})

Min(S) == CHOOSE x \in S : \A y \in S : x <= y

\* Mutant of Clipped: the whole length of the booking is counted.
ClippedNot(b, day_start, day_end) ==
    LET s == b.start_at
        e == b.end_at
    IN  Max({0, ((e - s) * SecondsPerMinute) \div SecondsPerMinute})

\* s = max(b.start_at, day_start); e = min(b.end_at, day_end)
\* max(0, int((e - s).total_seconds() // 60))
Clipped(b, day_start, day_end) ==
    LET s == Max({b.start_at, day_start})
        e == Min({b.end_at, day_end})
    IN  Max({0, ((e - s) * SecondsPerMinute) \div SecondsPerMinute})

\* total_minutes after the loop over the bookings of the day
RECURSIVE TotalMinutes(_, _, _)
TotalMinutes(rows, day_start, day_end) ==
    IF rows = <<>>
    THEN 0
    ELSE Clipped(Head(rows), day_start, day_end)
           + TotalMinutes(Tail(rows), day_start, day_end)

\* round(total_minutes / 60, 2), in hundredths of an hour
HoursBooked(total_minutes) == ((total_minutes * 200) + 60) \div 120

\* A booking as the answer carries it.  SQLite: the row is handed to the
\* template.  Firestore: start_at and end_at are replaced by their texts.
Shown(be, b) ==
    IF be = "sqlite"
    THEN b
    ELSE [b EXCEPT !.start_at = Format(b.start_at), !.end_at = Format(b.end_at)]

\* the answer of index() / get_bookings() for the day, given the rows in order
Listed(be, rows, day) ==
    LET total_minutes == TotalMinutes(rows, DayStart(day), DayEnd(day))
    IN  [Idle EXCEPT !.pc = "done", !.op = "list", !.day = day,
                     !.shown = [i \in 1..Len(rows) |-> Shown(be, rows[i])],
                     !.todays_count = Len(rows),
                     !.total_minutes = total_minutes,
                     !.hours_booked = HoursBooked(total_minutes)]

List(p, day) ==
    /\ req[p].pc \in {"idle", "done"}
    /\ \E rows \in DayRows(backend, bookings, day) :
           req' = [req EXCEPT ![p] = Listed(backend, rows, day)]
    /\ UNCHANGED <<backend, bookings, created, issued, clock>>

\* the days asked for
Days == 0..1

\* Forms of the day specification: 20:00-23:00 and 23:00-01:00; a booking
\* that ends at midnight and one that starts at it; a morning booking with
\* padded fields and an email.
DayForms ==
    {Plain(At(0, 20, 0), At(0, 23, 0)),
     Plain(At(0, 23, 0), At(0, 1, 0)),
     Plain(At(0, 22, 0), At(1, 0, 0)),
     Plain(At(1, 0, 0), At(1, 2, 0)),
     Form(<<" ", "b">>, <<"c", " ">>, <<"a", "@", "a", ".", "a">>,
          At(0, 10, 0), At(0, 13, 0))}

\* one request at a time: create, delete, list
NextDay ==
    \/ \E p \in SeqProcs : Create(p, DayForms)
    \/ \E p \in SeqProcs : \E id \in DeleteIds : Delete(p, id)
    \/ \E p \in SeqProcs : \E day \in Days : List(p, day)

SpecDay == Init /\ [][NextDay]_vars

\* Forms of the busy day: 10:00-16:00, 16:00-22:00 and 22:00-04:00, which
\* touch one another.
BusyForms ==
    {Plain(At(0, 10, 0), At(0, 16, 0)),
     Plain(At(0, 16, 0), At(0, 22, 0)),
     Plain(At(0, 22, 0), At(0, 4, 0))}

\* concurrent creates on one day, and listings of the day
NextBusy ==
    \/ \E p \in Procs : Receive(p, BusyForms)
    \/ \E p \in Procs : CheckConflict(p)
    \/ \E p \in Procs : InsertBelow(p, MaxBusy)
    \/ \E p \in Procs : \E day \in Days : List(p, day)

SpecBusy == Init /\ [][NextBusy]_vars

\* Forms of the two clients that take turns: 10:00-13:00, 20:00-23:00 and
\* 22:00-00:00.
TurnForms ==
    {Plain(At(0, 10, 0), At(0, 13, 0)),
     Plain(At(0, 20, 0), At(0, 23, 0)),
     Plain(At(0, 22, 0), At(1, 0, 0))}

\* two clients, one request at a time: both create, one of them lists, the
\* other deletes
NextTurns ==
    \/ \E p \in Procs : Create(p, TurnForms)
    \/ \E p \in Procs \ SeqProcs : \E id \in DeleteIds : Delete(p, id)
    \/ \E p \in SeqProcs : \E day \in Days : List(p, day)
    \/ Tick

SpecTurns == Init /\ [][NextTurns]_vars

-----------------------------------------------------------------------------
(* Properties *)

Creates == {p \in Procs : req[p].op = "create" /\ req[p].pc = "done"}

\* the request got as far as the checks on the parsed interval
Parsed(r) == r.result \notin {"None", "MissingField", "InvalidEmail", "MalformedTime"}

\* C1: in every reachable state no two live reservations have overlapping
\* half-open intervals.
C1_NoOverlap ==
    \A a \in bookings : \A b \in bookings :
        a # b => ~(a.start_at < b.end_at /\ a.end_at > b.start_at)

\* C2: of two create requests with overlapping valid intervals made on an
\* empty store (every booking ever inserted is theirs and none was deleted),
\* exactly one succeeds and the other receives Conflict.
C2_ExactlyOneWins ==
    \A p \in Creates : \A q \in Creates :
        ( /\ p # q
          /\ req[p].result \in {"Ok", "Conflict"}
          /\ req[q].result \in {"Ok", "Conflict"}
          /\ req[p].start_at < req[q].end_at
          /\ req[p].end_at > req[q].start_at
          /\ Cardinality(bookings) = created
          /\ created = Cardinality({x \in {p, q} : req[x].result = "Ok"}) )
        => \/ req[p].result = "Ok" /\ req[q].result = "Conflict"
           \/ req[p].result = "Conflict" /\ req[q].result = "Ok"

\* C3: with creates run one at a time, a validated create is refused with
\* Conflict exactly when a live reservation overlaps it, and the reservation
\* named is live and overlaps it; the same form submitted again at the same
\* clock, with the named reservation (or the reservation just accepted)
\* still live, is refused with Conflict.
C3_Answer(p) ==
    LET r == req'[p]
    IN  (r # req[p] /\ r.op = "create" /\ r.pc = "done" /\ r.result \in {"Ok", "Conflict"})
        => /\ r.result = "Conflict"
                <=> \E b \in bookings : b.start_at < r.end_at /\ b.end_at > r.start_at
           /\ r.result = "Conflict"
                => /\ r.conflict \in bookings
                   /\ r.conflict.start_at < r.end_at
                   /\ r.conflict.end_at > r.start_at

C3_Again(p) ==
    LET r == req[p]
    IN  ( /\ r.op = "create"
          /\ r.pc = "done"
          /\ req'[p] # r
          /\ req'[p].op = "create"
          /\ req'[p].form = r.form
          /\ clock = r.reading
          /\ \/ r.result = "Conflict" /\ r.conflict \in bookings
             \/ /\ r.result = "Ok"
                /\ \E b \in bookings : b.start_at = r.start_at /\ b.end_at = r.end_at )
        => req'[p].result = "Conflict"

C3_ConflictWhenSequential == [][\A p \in Procs : C3_Answer(p) /\ C3_Again(p)]_vars

\* a form was refused because of a reservation with its own interval: the
\* duplicate of an accepted form
C3_Witness ==
    \E p \in Creates :
        /\ req[p].result = "Conflict"
        /\ req[p].conflict \in bookings
        /\ req[p].conflict.start_at = req[p].start_at
        /\ req[p].conflict.end_at = req[p].end_at

\* C4: every live reservation lasts at most 6 hours; a create that reaches
\* the duration check with an interval (after rollover) of exactly 6h00m is
\* not rejected for its duration, one of 6h01m is rejected with
\* DurationExceeded.
C4_SixHours ==
    /\ \A b \in bookings : b.end_at - b.start_at <= 360
    /\ \A p \in Procs :
         /\ req[p].pc \in {"validated", "checked"} => req[p].end_at - req[p].start_at <= 360
         /\ (p \in Creates /\ req[p].end_at - req[p].start_at = 360)
                => req[p].result # "DurationExceeded"
         /\ ( /\ p \in Creates
              /\ req[p].end_at - req[p].start_at = 361
              /\ Parsed(req[p])
              /\ req[p].result # "PastBooking" )
                => req[p].result = "DurationExceeded"

\* a reservation of exactly 6 hours that crosses midnight is live while a
\* request of 6h01m has been rejected
C4_Witness ==
    /\ \E b \in bookings : b.end_at - b.start_at = 360 /\ b.end_at > 1440 /\ b.start_at < 1440
    /\ \E p \in Creates :
         req[p].end_at - req[p].start_at = 361 /\ req[p].result = "DurationExceeded"

\* C5: every live reservation ends after it starts; a create that reaches
\* the check with an end (after rollover) equal to or earlier than its start
\* is rejected with NonPositiveDuration and never inserted.
C5_EndAfterStart ==
    /\ \A b \in bookings : b.end_at > b.start_at
    /\ \A p \in Procs :
         /\ req[p].pc \in {"validated", "checked"} => req[p].end_at > req[p].start_at
         /\ ( /\ p \in Creates
              /\ Parsed(req[p])
              /\ req[p].result # "PastBooking"
              /\ req[p].end_at <= req[p].start_at )
                => req[p].result = "NonPositiveDuration"

\* one request with end = start and one with end before start (the end on
\* the day before) have been rejected
C5_Witness ==
    \E p \in Creates : \E q \in Creates :
        /\ req[p].result = "NonPositiveDuration" /\ req[p].end_at = req[p].start_at
        /\ req[q].result = "NonPositiveDuration" /\ req[q].end_at < req[q].start_at

C7_PastBoundary ==
    \A p \in Creates :
        Parsed(req[p])
        => /\ req[p].start_at * 60 = req[p].reading => req[p].result # "PastBooking"
           /\ req[p].start_at * 60 = req[p].reading - 60 => req[p].result = "PastBooking"

\* a request whose start equals the clock reading was accepted
C7_Witness ==
    \E p \in Creates : req[p].start_at * 60 = req[p].reading /\ req[p].result = "Ok"

\* The checks as the specification words them.
AllSpace(text) == \A i \in 1..Len(text) : text[i] = " "

AllWs(text) == \A i \in 1..Len(text) : text[i].k = "ws"

FieldMissing(form) ==
    AllSpace(form.title) \/ AllSpace(form.name) \/ AllWs(form.start_at) \/ AllWs(form.end_at)

FirstFailing(form, be, reading) ==
    IF FieldMissing(form) THEN "MissingField"
    ELSE IF ~AllSpace(form.email) /\ ~EmailPattern(Strip(form.email)) THEN "InvalidEmail"
    ELSE IF ~Parses(form.start_at) \/ ~Parses(form.end_at) THEN "MalformedTime"
    ELSE LET s == parse_local(form.start_at)
             e == Rollover(s, parse_local(form.end_at))
         IN  IF s * 60 < Now(be, reading) THEN "PastBooking"
             ELSE IF e <= s THEN "NonPositiveDuration"
             ELSE IF e - s > 360 THEN "DurationExceeded"
             ELSE "None"

\* C8: the reason reported is the first failing check in the order
\* MissingField, InvalidEmail, MalformedTime, PastBooking,
\* NonPositiveDuration, DurationExceeded; Conflict or success only when none
\* of them fails.
C8_FirstFailureWins ==
    \A p \in Creates :
        LET first == FirstFailing(req[p].form, backend, req[p].reading)
        IN  IF first = "None"
            THEN req[p].result \in {"Ok", "Conflict"}
            ELSE req[p].result = first

\* C9: a create in which the title, the organizer name, the start text or
\* the end text is empty or only white space is rejected with MissingField.
C9_MissingField ==
    \A p \in Creates : FieldMissing(req[p].form) => req[p].result = "MissingField"

\* the date-and-time token of a time text
Stamp(text) == text[CHOOSE i \in 1..Len(text) : text[i].k = "dt"]

\* C10: when both times parse, the end is the parsed end plus exactly one
\* day if the two calendar dates are equal and the end's time of day is
\* strictly earlier than the start's, and the parsed end itself otherwise.
C10_Rollover ==
    \A p \in Creates :
        Parsed(req[p])
        => LET s == Stamp(req[p].form.start_at)
               e == Stamp(req[p].form.end_at)
           IN  /\ req[p].start_at = (s.d * 1440) + s.m
               /\ req[p].end_at = (e.d * 1440) + e.m
                                    + (IF s.d = e.d /\ e.m < s.m THEN 1440 ELSE 0)

\* start 22:00 and end 01:00 of the same date were accepted as the 3 hour
\* booking that ends the next day
C10_Witness ==
    \E p \in Creates :
        /\ req[p].result = "Ok"
        /\ Stamp(req[p].form.start_at) = DT(0, 1320, 0)
        /\ Stamp(req[p].form.end_at) = DT(0, 60, 0)
        /\ \E b \in bookings : b.start_at = 1320 /\ b.end_at = 1500

\* the clients whose request to delete was answered in this step
Deletes == {p \in Procs : req'[p] # req[p] /\ req'[p].op = "delete"}

\* C11: deleting an id that is not the id of a live reservation is answered
\* NotFound and leaves the set of reservations unchanged, in both variants.
C11_DeleteUnknown ==
    [][\A p \in Deletes :
           req'[p].id \notin Ids(bookings)
           => req'[p].result = "NotFound" /\ bookings' = bookings]_vars

\* C12: of two requests in a row to delete a live id, the first is answered
\* Ok and removes exactly that reservation; the second is answered NotFound
\* and leaves the store as the first left it.
C12_DeleteTwice ==
    [][\A p \in Deletes :
           /\ req'[p].times = 1
              => /\ req'[p].result = "Ok"
                 /\ bookings' = {b \in bookings : b.id # req'[p].id}
                 /\ Cardinality(bookings') = Cardinality(bookings) - 1
           /\ req'[p].times = 2
              => /\ req'[p].result = "NotFound"
                 /\ bookings' = bookings]_vars

\* C13: ids are unique among live reservations and never reused: the id of
\* a newly inserted reservation differs from the id of every reservation
\* inserted before, deleted ones included.
C13_IdsNeverReused ==
    [][/\ \A b \in bookings' \ bookings : b.id \notin issued
       /\ \A a \in bookings' : \A b \in bookings' : a.id = b.id => a = b]_vars

Queries == {p \in Procs : req[p].op = "conflict" /\ req[p].pc = "done"}

\* C14: the conflict query returns a reservation exactly when some stored
\* reservation R, other than the one named by the exclude id when one is
\* given, has R.start_at < end and R.end_at > start, and the reservation
\* it returns is such a stored reservation.
C14_ConflictExact ==
    \A p \in Queries :
        LET Hit(R) == /\ R.start_at < req[p].end_at
                      /\ R.end_at > req[p].start_at
                      /\ (req[p].id = 0 \/ R.id # req[p].id)
        IN  /\ req[p].conflict # NoBooking <=> \E R \in bookings : Hit(R)
            /\ req[p].conflict # NoBooking
               => req[p].conflict \in bookings /\ Hit(req[p].conflict)

\* asked for 12:00-14:00 without booking 1, the query returned booking 2
C14_Witness ==
    \E p \in Queries :
        /\ Cardinality(bookings) = 2
        /\ req[p].id = 1
        /\ req[p].start_at = 720
        /\ req[p].end_at = 840
        /\ req[p].conflict.id = 2

\* the interval of request r is the interval of a live reservation
Live(r) == \E b \in bookings : b.start_at = r.start_at /\ b.end_at = r.end_at

\* C15: of two valid creates made one after the other on an empty store
\* (every booking ever inserted is theirs), in either order: when one
\* interval ends no later than the other starts, both are accepted and both
\* reservations are live; when the intervals overlap, the first is accepted
\* and the second is rejected with Conflict.
C15_Symmetric ==
    \A p \in Creates : \A q \in Creates :
        LET A == req[p]
            B == req[q]
            accepted == {c \in {p, q} : req[c].result = "Ok"}
            apart == A.end_at <= B.start_at \/ B.end_at <= A.start_at
        IN  (/\ p # q
             /\ A.result \in {"Ok", "Conflict"}
             /\ B.result \in {"Ok", "Conflict"}
             /\ created = Cardinality(accepted)
             /\ Cardinality(bookings) = created)
            => IF apart
               THEN accepted = {p, q} /\ Live(A) /\ Live(B)
               ELSE Cardinality(accepted) = 1

\* 10:00-13:00 and 13:00-16:00 were both accepted and are both live
C15_Witness ==
    /\ Creates = Procs
    /\ \A p \in Procs : req[p].result = "Ok" /\ Live(req[p])
    /\ {<<req[p].start_at, req[p].end_at>> : p \in Procs} = {<<600, 780>>, <<780, 960>>}
    /\ Cardinality(bookings) = 2

\* the clients whose request to list a day was answered in this step
Lists == {p \in Procs : req'[p] # req[p] /\ req'[p].op = "list"}

\* the instant a listed start or end stands for: the Firestore variant
\* answers with texts of date, hour and minute
Instant(x) == IF backend = "sqlite" THEN x ELSE (x[1] * 1440) + (x[2] * 60) + x[3]

\* listed entry x is stored reservation R
Shows(x, R) ==
    /\ x.id = R.id
    /\ x.title = R.title
    /\ x.name = R.name
    /\ x.email = R.email
    /\ Instant(x.start_at) = R.start_at
    /\ Instant(x.end_at) = R.end_at

\* C16: the listing of day [dayStart, dayEnd) returns exactly the live
\* reservations R with R.start_at < dayEnd and R.end_at > dayStart, each
\* once, in ascending order of start_at, the count is the number of
\* reservations returned, and the store is left unchanged.
C16_DayListing ==
    [][\A p \in Lists :
           LET a == req'[p]
               n == Len(a.shown)
               dayStart == a.day * 1440
               dayEnd == dayStart + 1440
               want == {R \in bookings : R.start_at < dayEnd /\ R.end_at > dayStart}
           IN  /\ bookings' = bookings
               /\ n = Cardinality(want)
               /\ \A R \in want : \E i \in 1..n : Shows(a.shown[i], R)
               /\ \A i \in 1..n : \E R \in want : Shows(a.shown[i], R)
               /\ \A i \in 1..n : \A j \in 1..n :
                      i < j => Instant(a.shown[i].start_at) <= Instant(a.shown[j].start_at)
               /\ a.todays_count = n]_vars

\* day 0 was listed with 20:00-23:00 (id 1) and 10:00-13:00 (id 2) live:
\* the later booking comes first
C16_Witness ==
    \E p \in Procs :
        /\ req[p].op = "list"
        /\ req[p].day = 0
        /\ {<<b.id, b.start_at>> : b \in bookings} = {<<1, 1200>>, <<2, 600>>}
        /\ Len(req[p].shown) = 2
        /\ req[p].shown[1].id = 2
        /\ req[p].shown[2].id = 1

\* the minutes of the reservations of S that fall into [dayStart, dayEnd)
RECURSIVE MinutesWithin(_, _, _)
MinutesWithin(S, dayStart, dayEnd) ==
    IF S = {}
    THEN 0
    ELSE LET R == CHOOSE x \in S : TRUE
             from == IF R.start_at > dayStart THEN R.start_at ELSE dayStart
             to == IF R.end_at < dayEnd THEN R.end_at ELSE dayEnd
         IN  (IF to > from THEN to - from ELSE 0)
               + MinutesWithin(S \ {R}, dayStart, dayEnd)

\* C17: the occupied minutes of a day are the sum, over the reservations
\* visible on it, of the minutes of the interval clipped to the day; the
\* hours reported are that sum in hours, to the nearest hundredth.  With
\* 20:00-23:00 and 23:00-01:00 live, day D has 240 minutes and D+1 has 60.
C17_OccupiedMinutes ==
    [][\A p \in Lists :
           LET a == req'[p]
               dayStart == a.day * 1440
               dayEnd == dayStart + 1440
               want == {R \in bookings : R.start_at < dayEnd /\ R.end_at > dayStart}
           IN  /\ a.total_minutes = MinutesWithin(want, dayStart, dayEnd)
               /\ (a.hours_booked * 60) - (a.total_minutes * 100) \in -30..30
               /\ {<<R.start_at, R.end_at>> : R \in bookings} = {<<1200, 1380>>, <<1380, 1500>>}
                  => a.total_minutes = (IF a.day = 0 THEN 240 ELSE 60)]_vars

\* day 1 was listed with 20:00-23:00 and 23:00-01:00 live: 60 minutes
C17_Witness ==
    \E p \in Procs :
        /\ req[p].op = "list"
        /\ req[p].day = 1
        /\ {<<R.start_at, R.end_at>> : R \in bookings} = {<<1200, 1380>>, <<1380, 1500>>}
        /\ req[p].total_minutes = 60
        /\ req[p].hours_booked = 100

\* t is text without the white space around it
Trimmed(text, t) ==
    \E i \in 1..(Len(text) + 1) : \E j \in 0..Len(text) :
        /\ t = SubSeq(text, i, j)
        /\ \A k \in 1..Len(text) : (k < i \/ k > j) => text[k] = " "
        /\ t # <<>> => t[1] # " " /\ t[Len(t)] # " "

\* C18: when a create has been accepted and the day of its start is listed
\* next, the answer holds a reservation with the title, organizer name and
\* email of the form (without the white space around them), the start of
\* the form and its end after rollover; when the store holds nothing else,
\* it is the only reservation returned.
C18_RoundTrip ==
    [][\A p \in Lists :
           LET r == req[p]
               a == req'[p]
               s == Stamp(r.form.start_at)
               e == Stamp(r.form.end_at)
               startAt == (s.d * 1440) + s.m
               endAt == (e.d * 1440) + e.m + (IF s.d = e.d /\ e.m < s.m THEN 1440 ELSE 0)
           IN  (r.op = "create" /\ r.result = "Ok" /\ a.day = s.d)
               => /\ \E i \in 1..Len(a.shown) :
                         /\ Trimmed(r.form.title, a.shown[i].title)
                         /\ Trimmed(r.form.name, a.shown[i].name)
                         /\ Trimmed(r.form.email, a.shown[i].email)
                         /\ Instant(a.shown[i].start_at) = startAt
                         /\ Instant(a.shown[i].end_at) = endAt
                  /\ Cardinality(bookings) = 1 => Len(a.shown) = 1]_vars

\* the form with padded title and name was accepted on an empty store and
\* day 0 was listed: one reservation, title "b", name "c", 10:00-13:00
C18_Witness ==
    \E p \in Procs :
        /\ req[p].op = "list"
        /\ req[p].day = 0
        /\ Cardinality(bookings) = 1
        /\ created = 1
        /\ Len(req[p].shown) = 1
        /\ req[p].shown[1].title = <<"b">>
        /\ req[p].shown[1].name = <<"c">>
        /\ req[p].shown[1].email = <<"a", "@", "a", ".", "a">>
        /\ Instant(req[p].shown[1].start_at) = 600
        /\ Instant(req[p].shown[1].end_at) = 780

\* the clients whose create request was answered in this step
Answered == {p \in Procs : req'[p] # req[p] /\ req'[p].op = "create" /\ req'[p].pc = "done"}

\* C19: a create that is rejected, for whatever reason, leaves the set of
\* reservations as it was; an accepted create adds exactly one reservation
\* and keeps the others.
C19_RejectedLeavesStore ==
    [][\A p \in Answered :
           IF req'[p].result = "Ok"
           THEN /\ bookings \subseteq bookings'
                /\ Cardinality(bookings') = Cardinality(bookings) + 1
           ELSE bookings' = bookings]_vars

\* a create was refused with Conflict beside the earlier booking, which is
\* still the only one
C19_Witness ==
    \E p \in Creates :
        /\ req[p].result = "Conflict"
        /\ req[p].conflict = Earlier
        /\ bookings = {Earlier}

\* the other storage variant
Other(be) == IF be = "sqlite" THEN "firestore" ELSE "sqlite"

\* the reservations of a store without their ids
Contents(store) == {[b EXCEPT !.id = 0] : b \in store}

\* the client's request answered in this step gets, from the same store
\* and at the same clock, the same outcome in the other variant
SameCreate(p) ==
    LET a == req'[p]
        o == Validated(a.form, Other(backend), clock)
    IN  /\ o.pc = "done" => a.result = o.result
        /\ o.pc = "validated"
           => /\ a.result \in {"Ok", "Conflict"}
              /\ a.result = "Ok"
                 => Contents(bookings') = Contents(Inserted(bookings, Other(backend), created, o))

SameDelete(p) ==
    /\ req'[p].result = DeleteResult(Other(backend), bookings, req'[p].id)
    /\ bookings' = {b \in bookings : b.id # req'[p].id}

SameList(p) ==
    \E rows \in DayRows(Other(backend), bookings, req'[p].day) :
        LET a == req'[p]
            o == Listed(Other(backend), rows, a.day)
        IN  /\ Len(a.shown) = Len(o.shown)
            /\ \A i \in 1..Len(a.shown) : a.shown[i].id = o.shown[i].id
            /\ a.todays_count = o.todays_count
            /\ a.total_minutes = o.total_minutes
            /\ a.hours_booked = o.hours_booked

\* C20: the two variants are one engine: from the same store, at the same
\* clock reading, the same create, delete or day listing has the same
\* outcome (accepted or the reason of rejection, found or not found, the
\* visible reservations and the occupied minutes) and leaves the same set
\* of reservations.
C20_SameEngine ==
    [][\A p \in Procs :
           (req'[p] # req[p] /\ req'[p].pc = "done")
           => /\ req'[p].op = "create" => SameCreate(p)
              /\ req'[p].op = "delete" => SameDelete(p)
              /\ req'[p].op = "list" => SameList(p)]_vars

\* the start and the end of the form's two time texts, the end before and
\* after the move to the next day, and whether it was moved
Asks(r) ==
    LET s == Stamp(r.form.start_at)
        e == Stamp(r.form.end_at)
        moved == s.d = e.d /\ e.m < s.m
    IN  [start |-> (s.d * 1440) + s.m,
         given |-> (e.d * 1440) + e.m,
         end |-> (e.d * 1440) + e.m + (IF moved THEN 1440 ELSE 0),
         startDay |-> s.d,
         endDay |-> e.d,
         moved |-> moved]

C22_AtMostADay ==
    \A p \in Procs : req[p].op = "list" => req[p].total_minutes \in 0..1440

\* the reservation that client p's accepted create made has been deleted
Gone(p) == req[p].op = "create" /\ req[p].result = "Ok" /\ ~Live(req[p])

\* C23: deletion frees the slot.  A delete of a live reservation leaves no
\* live reservation with its interval.  Once the reservation of an
\* accepted create is deleted, a create for the same interval whose start
\* is not before the clock and which no live reservation overlaps is
\* accepted; no conflict is reported with a reservation of that interval
\* and no day listing shows one.
C23_DeletionFreesSlot ==
    [][/\ \A q \in Procs : \A b \in bookings :
              (/\ req'[q].op = "delete"
               /\ req'[q] # req[q] \/ b \notin bookings'
               /\ b.id = req'[q].id)
              => ~\E c \in bookings' : c.start_at = b.start_at /\ c.end_at = b.end_at
       /\ \A p \in Procs :
              Gone(p)
              => /\ \A q \in Answered :
                        (/\ Parsed(req'[q])
                         /\ Asks(req'[q]).start = req[p].start_at
                         /\ Asks(req'[q]).end = req[p].end_at
                         /\ Asks(req'[q]).start * 60 >= clock
                         /\ \A b \in bookings :
                                ~(b.start_at < req[p].end_at /\ b.end_at > req[p].start_at))
                        => /\ req'[q].result = "Ok"
                           /\ \E b \in bookings' : /\ b.start_at = req[p].start_at
                                                   /\ b.end_at = req[p].end_at
                 /\ \A q \in Answered :
                        req'[q].result = "Conflict"
                        => /\ req'[q].conflict \in bookings
                           /\ ~(/\ req'[q].conflict.start_at = req[p].start_at
                                /\ req'[q].conflict.end_at = req[p].end_at)
                 /\ \A q \in Lists : \A i \in 1..Len(req'[q].shown) :
                        /\ \E b \in bookings : Shows(req'[q].shown[i], b)
                        /\ ~(/\ Instant(req'[q].shown[i].start_at) = req[p].start_at
                             /\ Instant(req'[q].shown[i].end_at) = req[p].end_at)]_vars

\* both clients have had a create for 20:00-23:00 accepted and one
\* reservation is live: the first was deleted and the slot was booked again
C23_Witness ==
    /\ Creates = Procs
    /\ \A p \in Procs : /\ req[p].result = "Ok"
                        /\ req[p].start_at = 1200
                        /\ req[p].end_at = 1380
    /\ created = 2
    /\ Cardinality(bookings) = 1

====
